---- MODULE Spec2Model ----
(***************************************************************************)
(* Model of the dependency-drift-tracker pipeline.                         *)
(*                                                                         *)
(* Two versions of the pipeline's main() are in the sources:               *)
(*   "enrich" : src/unnamed/part_001 (merged-bump-pull-request enrichment, *)
(*              histories keyed by replaceRepositoryWithSafeChar of        *)
(*              `${repository}#${path}`, no index files);                  *)
(*   "index"  : src/src/index.mjs (no enrichment, histories keyed by       *)
(*              getSafeRepositoryName, history and last-run index files).  *)
(* The variable `variant` says which of the two is running.                *)
(*                                                                         *)
(* Strings are sequences of one-character strings.                         *)
(***************************************************************************)
EXTENDS Integers, Sequences, FiniteSets, TLC

(***************************************************************************)
(* Bounds of the model.                                                    *)
(***************************************************************************)
MaxLines == 2
MaxRuns == 2
MaxDay == 2

(***************************************************************************)
(* Strings.                                                                *)
(***************************************************************************)
NL == "\n"
\* the WhiteSpace and LineTerminator characters that trim() strips: space,
\* tab, line feed, carriage return, form feed, vertical tab, U+00A0, U+FEFF
\* and U+1680 (U+2000 to U+200A, U+2028, U+2029, U+202F, U+205F and U+3000
\* are stripped too and cannot be written in a string here)
Whitespace == {" ", "\t", "\n", "\r", "\f", "", " ", "﻿", " "}

RECURSIVE Join(_, _)
Join(ss, sep) ==
  IF ss = <<>> THEN <<>>
  ELSE IF Len(ss) = 1 THEN ss[1]
  ELSE ss[1] \o sep \o Join(Tail(ss), sep)

\* String.prototype.split with a one-character separator
RECURSIVE SplitFrom(_, _, _)
SplitFrom(s, ch, cur) ==
  IF s = <<>> THEN <<cur>>
  ELSE IF Head(s) = ch THEN <<cur>> \o SplitFrom(Tail(s), ch, <<>>)
  ELSE SplitFrom(Tail(s), ch, Append(cur, Head(s)))

Split(s, ch) == SplitFrom(s, ch, <<>>)

RECURSIVE TrimStart(_)
TrimStart(s) ==
  IF s # <<>> /\ Head(s) \in Whitespace THEN TrimStart(Tail(s)) ELSE s

RECURSIVE TrimEnd(_)
TrimEnd(s) ==
  IF s # <<>> /\ s[Len(s)] \in Whitespace
  THEN TrimEnd(SubSeq(s, 1, Len(s) - 1)) ELSE s

Trim(s) == TrimEnd(TrimStart(s))

StartsWith(s, p) == Len(s) >= Len(p) /\ SubSeq(s, 1, Len(p)) = p

(***************************************************************************)
(* Configuration parsing.                                                  *)
(***************************************************************************)
\* const [repository, path] = line.split('#'); path: path || ''
parseRepositoryLine(line) ==
  LET parts == Split(line, "#")
  IN [repository |-> parts[1],
      path |-> IF Len(parts) >= 2 THEN parts[2] ELSE <<>>]

IsSkippedLineUntrimmed(line) == line = <<>> \/ StartsWith(line, <<"#">>)

\* line.trim() === '' || line.trim().startsWith('#')
IsSkippedLine(line) == Trim(line) = <<>> \/ StartsWith(Trim(line), <<"#">>)

RECURSIVE ParseLines(_)
ParseLines(ls) ==
  IF ls = <<>> THEN <<>>
  ELSE IF IsSkippedLine(Head(ls)) THEN ParseLines(Tail(ls))
  ELSE <<parseRepositoryLine(Head(ls))>> \o ParseLines(Tail(ls))

parseFile(text) == ParseLines(Split(text, NL))

(***************************************************************************)
(* Safe names.                                                             *)
(***************************************************************************)
HttpScheme == <<"h", "t", "t", "p", ":", "/", "/">>
HttpsScheme == <<"h", "t", "t", "p", "s", ":", "/", "/">>
UnsafeChars == {"-", "/", ":", ".", "#"}

\* line.replaceAll(/(https?:\/\/)/g, '')
RECURSIVE RemoveSchemes(_)
RemoveSchemes(s) ==
  IF s = <<>> THEN <<>>
  ELSE IF StartsWith(s, HttpsScheme)
       THEN RemoveSchemes(SubSeq(s, Len(HttpsScheme) + 1, Len(s)))
  ELSE IF StartsWith(s, HttpScheme)
       THEN RemoveSchemes(SubSeq(s, Len(HttpScheme) + 1, Len(s)))
  ELSE <<Head(s)>> \o RemoveSchemes(Tail(s))

DropUnsafe(s) == SelectSeq(s, LAMBDA c : c \notin UnsafeChars)

\* .replaceAll(/(-|\/|:|\.|#)/g, '-')
ReplaceUnsafe(s) == [i \in 1..Len(s) |-> IF s[i] \in UnsafeChars THEN "-" ELSE s[i]]

replaceRepositoryWithSafeChar(line) == ReplaceUnsafe(RemoveSchemes(line))

getSafeRepositoryName(repositoryURL, path) ==
  replaceRepositoryWithSafeChar(
    IF path = <<>> THEN repositoryURL ELSE repositoryURL \o <<"#">> \o path)

\* `${repository}#${path}` as main() of part_001 and the dashboard build it
createLine(repository, path) == repository \o <<"#">> \o path

\* displayChart of the dashboard: the history file it fetches for an entry,
\* `data/history-${replaceRepositoryWithSafeChar(line)}.json`
DashboardKey(repository, path) ==
  replaceRepositoryWithSafeChar(createLine(repository, path))

(***************************************************************************)
(* Credential substitution.  A variable mapping is the sequence of its     *)
(* [key, value] pairs in the order Object.keys lists them.                 *)
(***************************************************************************)
\* the replacement patterns of String.prototype.replaceAll with a string
\* pattern: "$$" stands for one '$', "$&" for the matched text, "$`" for the
\* text before the match and "$'" for the text after it
\* the character U+0060 (grave accent), written by name: between double
\* quotes it would open a quotation that runs to the next apostrophe
Grave == "grave accent"

RECURSIVE ExpandReplacement(_, _, _, _)
ExpandReplacement(rep, matched, before, after) ==
  IF rep = <<>> THEN <<>>
  ELSE IF StartsWith(rep, <<"$", "$">>)
       THEN <<"$">> \o ExpandReplacement(SubSeq(rep, 3, Len(rep)), matched, before, after)
  ELSE IF StartsWith(rep, <<"$", "&">>)
       THEN matched \o ExpandReplacement(SubSeq(rep, 3, Len(rep)), matched, before, after)
  ELSE IF StartsWith(rep, <<"$", Grave>>)
       THEN before \o ExpandReplacement(SubSeq(rep, 3, Len(rep)), matched, before, after)
  ELSE IF StartsWith(rep, <<"$", "'">>)
       THEN after \o ExpandReplacement(SubSeq(rep, 3, Len(rep)), matched, before, after)
  ELSE <<Head(rep)>> \o ExpandReplacement(Tail(rep), matched, before, after)

\* the matches are looked for from left to right in the string as it was,
\* each replacement seeing the text around its match
RECURSIVE ReplaceFrom(_, _, _, _)
ReplaceFrom(str, i, pattern, replacement) ==
  IF i > Len(str) THEN <<>>
  ELSE IF StartsWith(SubSeq(str, i, Len(str)), pattern)
       THEN ExpandReplacement(replacement, pattern, SubSeq(str, 1, i - 1),
                              SubSeq(str, i + Len(pattern), Len(str)))
              \o ReplaceFrom(str, i + Len(pattern), pattern, replacement)
  ELSE <<str[i]>> \o ReplaceFrom(str, i + 1, pattern, replacement)

\* memo.replaceAll(pattern, replacement) with a string pattern
ReplaceAll(memo, pattern, replacement) == ReplaceFrom(memo, 1, pattern, replacement)

\* memo.replaceAll(`$${key}`, variables[key])
ReplaceKey(memo, key, value) == ReplaceAll(memo, <<"$">> \o key, value)

\* Object.keys(variables).reduce(..., repository)
RECURSIVE replaceRepositoryVariablesWithEnvVariables(_, _)
replaceRepositoryVariablesWithEnvVariables(repository, variables) ==
  IF variables = <<>> THEN repository
  ELSE replaceRepositoryVariablesWithEnvVariables(
         ReplaceKey(repository, variables[1].key, variables[1].value),
         Tail(variables))

(***************************************************************************)
(* Numbers.                                                                *)
(***************************************************************************)
\* A number is a double whose value is a whole number: hi * 2^53 + lo, with
\* 0 <= lo < 2^53.  Whole numbers below 2^53 are all doubles; from 2^53 on
\* the doubles are Spacing(hi) apart.
N(n) == [hi |-> 0, lo |-> n]

RECURSIVE Spacing(_)
Spacing(hi) == IF hi = 0 THEN 1 ELSE 2 * Spacing(hi \div 2)

\* the multiple of d nearest to r, the even multiple when two are as near
RoundToEven(r, d) ==
  LET q == r \div d
      m == r % d
  IN IF 2 * m < d THEN q * d
     ELSE IF 2 * m > d THEN (q + 1) * d
     ELSE IF q % 2 = 0 THEN q * d ELSE (q + 1) * d

\* a + b of two such numbers: the exact sum, rounded to the nearest double
NumAdd(a, b) ==
  [hi |-> a.hi + b.hi, lo |-> RoundToEven(a.lo + b.lo, Spacing(a.hi + b.hi))]

(***************************************************************************)
(* The world outside the program: configuration lines, what the package    *)
(* manager probe and the metrics calculator answer, the directories.       *)
(***************************************************************************)
\* the lines a/b#x, a/b#y, c.d and toString
LinePool ==
  { <<"a", "/", "b", "#", "x">>,
    <<"a", "/", "b", "#", "y">>,
    <<"c", ".", "d">>,
    <<"t", "o", "S", "t", "r", "i", "n", "g">> }

RECURSIVE SeqsUpTo(_, _)
SeqsUpTo(S, n) ==
  IF n = 0 THEN {<<>>}
  ELSE LET shorter == SeqsUpTo(S, n - 1)
       IN shorter \cup {Append(q, e) : q \in {t \in shorter : Len(t) = n - 1}, e \in S}

\* the texts of repositories.txt: up to MaxLines lines, each ended by a newline
Contents == {Join(ls, <<NL>>) \o <<NL>> : ls \in SeqsUpTo(LinePool, MaxLines) \ {<<>>}}

\* (await preferredPM(packagePath)).name
NominalPm(path) == IF path = <<"y">> THEN "yarn" ELSE IF path = <<>> THEN "pnpm" ELSE "npm"

\* the versions `yarn --version` prints: the major number, and whether the
\* version carries a prerelease tag (1.22.19, 1.23.0-20220130.1630, 3.6.4)
YarnVersions ==
  { [major |-> 1, prerelease |-> FALSE],
    [major |-> 1, prerelease |-> TRUE],
    [major |-> 3, prerelease |-> FALSE] }

\* satisfies(stdout, "^0 || ^1"): a range without prerelease tag holds no
\* prerelease version
SatisfiesClassic(version) == ~version.prerelease /\ version.major \in {0, 1}

\* what libyear(packageManager, { all: true }) returns in a package directory
\* on its n-th day: the drift grows with time, some records lack a field
LibyearResults(path, n) ==
  { << [drift |-> N(n), pulse |-> N(2)],
       [drift |-> N(3), pulse |-> IF path = <<"y">> THEN N(4) ELSE N(1)],
       [name |-> "dep"],
       [pulse |-> N(n)] >> }

\* result.data.data.search.nodes.length
BumpCounts == {2}

\* the directory the process starts in; temporary directories are numbered
StartDir == [tmp |-> 0, path |-> <<>>]

(***************************************************************************)
(* File names.                                                             *)
(***************************************************************************)
DataDir == <<"d", "a", "t", "a", "/">>
JsonExt == <<".", "j", "s", "o", "n">>
HistoryPrefix == <<"h", "i", "s", "t", "o", "r", "y", "-">>
LastRunPrefix == <<"l", "a", "s", "t", "-", "r", "u", "n", "-">>
IndexSuffix == <<"i", "n", "d", "e", "x">>
HistoryName == <<"h", "i", "s", "t", "o", "r", "y">>
LastRunName == <<"l", "a", "s", "t", "-", "r", "u", "n">>

HistoryFileName(line) == HistoryPrefix \o line \o JsonExt
LastRunFileName(line) == LastRunPrefix \o line \o JsonExt
IndexFileName(name) == name \o <<"-">> \o IndexSuffix \o JsonExt

\* a relative path is resolved against the working directory of the process
FilePath(dir, fileName) == [dir |-> dir, name |-> DataDir \o fileName]

(***************************************************************************)
(* Summaries.                                                              *)
(***************************************************************************)
FieldOrOne(dep, f) == IF f \in DOMAIN dep THEN dep[f] ELSE N(1)

\* dep.drift || 0
FieldOrZero(dep, f) == IF f \in DOMAIN dep THEN dep[f] ELSE N(0)

\* memo.drift += dep.drift || 0, record after record
RECURSIVE SumFrom(_, _, _)
SumFrom(memo, result, f) ==
  IF result = <<>> THEN memo
  ELSE SumFrom(NumAdd(memo, FieldOrZero(Head(result), f)), Tail(result), f)

SumField(result, f) == SumFrom(N(0), result, f)

\* the enrich variant dates the summary, the index variant does not
createSummary(result, v, date) ==
  IF v = "enrich"
  THEN [drift |-> SumField(result, "drift"), pulse |-> SumField(result, "pulse"), date |-> date]
  ELSE [drift |-> SumField(result, "drift"), pulse |-> SumField(result, "pulse")]

(***************************************************************************)
(* Dates.  A Date is an instant: the number of minutes since               *)
(* 2023-01-30T00:00Z.  getDate and setDate work on the local date of the   *)
(* process, toISOString prints the UTC date.                               *)
(***************************************************************************)
EpochYear == 2022
EpochOffset == 394
MinutesPerDay == 1440

IsLeap(y) == (y % 4 = 0 /\ y % 100 # 0) \/ y % 400 = 0

DaysInMonth(y, m) ==
  IF m = 2 THEN (IF IsLeap(y) THEN 29 ELSE 28)
  ELSE IF m \in {4, 6, 9, 11} THEN 30 ELSE 31

\* the calendar date n days after the first day of month m of year y
RECURSIVE CivilFrom(_, _, _)
CivilFrom(y, m, n) ==
  IF n >= DaysInMonth(y, m)
  THEN (IF m = 12 THEN CivilFrom(y + 1, 1, n - DaysInMonth(y, m))
        ELSE CivilFrom(y, m + 1, n - DaysInMonth(y, m)))
  ELSE [year |-> y, month |-> m, day |-> n + 1]

\* the calendar date of day d, day 0 being 2023-01-30
CivilFromDays(d) == CivilFrom(EpochYear, 1, d + EpochOffset)

\* the day a time value lies in
DayOfTime(t) == t \div MinutesPerDay

\* the instant of hour:minute UTC on day d
Instant(d, hour, minute) == d * MinutesPerDay + hour * 60 + minute

\* A time zone (the TZ of the process): local time is UTC + `inside` minutes
\* at the instants from `from` up to `to`, UTC + `outside` minutes at the
\* others.  The rules are those in force from 2023-01 to 2024-03.
Utc == [inside |-> 0, outside |-> 0, from |-> 0, to |-> 0]
EuropeParis ==
  [inside |-> 120, outside |-> 60,
   from |-> Instant(55, 1, 0), to |-> Instant(272, 1, 0)]

\* UTC, Asia/Tokyo, Europe/Paris, America/New_York and Pacific/Auckland
Zones ==
  { Utc,
    [inside |-> 540, outside |-> 540, from |-> 0, to |-> 0],
    EuropeParis,
    [inside |-> -240, outside |-> -300,
     from |-> Instant(41, 7, 0), to |-> Instant(279, 6, 0)],
    [inside |-> 720, outside |-> 780,
     from |-> Instant(61, 14, 0), to |-> Instant(236, 14, 0)] }

\* the offset of local time to UTC at the instant t
OffsetAt(z, t) == IF z.from <= t /\ t < z.to THEN z.inside ELSE z.outside

\* LocalTime(t): the local time value of the instant t
LocalTime(z, t) == t + OffsetAt(z, t)

\* UTC(t): the instant of a local time value.  A local time that a change
\* of offset skips or repeats is read with the offset in force before the
\* change.
UTC(z, local) ==
  LET a == local - z.outside
      b == local - z.inside
      lo == IF a < b THEN a ELSE b
      hi == IF a < b THEN b ELSE a
      aFits == OffsetAt(z, a) = z.outside
      bFits == OffsetAt(z, b) = z.inside
  IN IF aFits /\ ~bFits THEN a
     ELSE IF bFits /\ ~aFits THEN b
     ELSE IF lo < z.to /\ z.to <= hi THEN b
     ELSE a

\* Date.prototype.getDate: the day of the month of the local date
GetDate(z, t) == CivilFromDays(DayOfTime(LocalTime(z, t))).day

\* Date.prototype.setDate: day k of the month of the local date at the same
\* local time, days outside the month running into the neighbouring months
SetDate(z, t, k) ==
  LET local == LocalTime(z, t)
      day == DayOfTime(local)
  IN UTC(z, (day - CivilFromDays(day).day + k) * MinutesPerDay + (local % MinutesPerDay))

Digits == <<"0", "1", "2", "3", "4", "5", "6", "7", "8", "9">>
Digit(n) == Digits[n + 1]
Pad2(n) == <<Digit(n \div 10), Digit(n % 10)>>
Pad4(n) == <<Digit(n \div 1000), Digit((n \div 100) % 10)>> \o Pad2(n % 100)

\* toISOString().split('T')[0]: the UTC date of the instant
IsoDate(t) ==
  LET c == CivilFromDays(DayOfTime(t))
  IN Pad4(c.year) \o <<"-">> \o Pad2(c.month) \o <<"-">> \o Pad2(c.day)

\* new Date(new Date().setDate(new Date().getDate() - 1))
getYesterday(z, today) == SetDate(z, today, GetDate(z, today) - 1)

\* new Date(summary.date).toISOString().split('T')[0]
IsoDay(s) == IsoDate(s.date)

\* new Date(undefined).toISOString() throws RangeError: Invalid time value
RangeError == -1

\* content.find(...): the callback is applied to one summary after the
\* other up to the first one dated yesterday; it throws on a summary
\* without date.  The position found, 0 if none
RECURSIVE FindYesterdayFrom(_, _, _, _)
FindYesterdayFrom(content, k, z, today) ==
  IF k > Len(content) THEN 0
  ELSE IF "date" \notin DOMAIN content[k] THEN RangeError
  ELSE IF IsoDay(content[k]) = IsoDate(getYesterday(z, today)) THEN k
  ELSE FindYesterdayFrom(content, k + 1, z, today)

FindYesterday(content, z, today) == FindYesterdayFrom(content, 1, z, today)

\* what saveSummary leaves of `content` when the callback of find throws:
\* nothing, it rejects
Rejected == << [rejected |-> "RangeError"] >>

\* yesterdaySummary.mergedBumpPullRequests = mergedBumpPullRequests
AttachBumps(content, z, today, n) ==
  LET k == FindYesterday(content, z, today)
  IN IF k = RangeError THEN Rejected
     ELSE IF k = 0 THEN content
     ELSE [content EXCEPT ![k] =
             [f \in DOMAIN content[k] \cup {"mergedBumpPullRequests"} |->
                IF f = "mergedBumpPullRequests" THEN n ELSE content[k][f]]]

\* the clock of the pipeline starts at 2023-10-29T00:30Z, in the night in
\* which Europe/Paris goes back to standard time
ClockStart == Instant(272, 0, 30)

\* the number of the day since the clock started, the first being 1
DaysRunning(t) == DayOfTime(t) - DayOfTime(ClockStart) + 1

\* a save that skips a summary whose day the history already holds
PushSummaryDedup(content, s) ==
  IF \E k \in 1..Len(content) :
       "date" \in DOMAIN content[k] /\ "date" \in DOMAIN s /\ content[k].date = s.date
  THEN content ELSE Append(content, s)

\* content.push(summary)
PushSummary(content, s) == Append(content, s)

(***************************************************************************)
(* The search query of the merged bump pull requests.                      *)
(***************************************************************************)
QueryHead ==
  <<
    "\n", " ", " ", " ", " ", "q", "u", "e", "r", "y", " ", "{", "\n", " ",
    " ", " ", " ", " ", " ", "s", "e", "a", "r", "c", "h", "(", "f", "i",
    "r", "s", "t", ":", " ", "1", "0", "0", ",", " ", "q", "u", "e", "r",
    "y", ":", " ", "\"", "r", "e", "p", "o", ":" >>

QueryMerged ==
  <<
    " ", "i", "s", ":", "p", "r", " ", "i", "s", ":", "m", "e", "r", "g",
    "e", "d", " ", "m", "e", "r", "g", "e", "d", ":" >>

QueryTitle ==
  <<
    " ", "i", "n", ":", "t", "i", "t", "l", "e", " ", "[", "B", "U", "M",
    "P", "]", " " >>

QueryTail ==
  <<
    "\"", ",", " ", "t", "y", "p", "e", ":", " ", "I", "S", "S", "U", "E",
    ")", " ", "{", "\n", " ", " ", " ", " ", " ", " ", " ", " ", "n", "o",
    "d", "e", "s", " ", "{", "\n", " ", " ", " ", " ", " ", " ", " ", " ",
    " ", " ", ".", ".", ".", " ", "o", "n", " ", "P", "u", "l", "l", "R",
    "e", "q", "u", "e", "s", "t", " ", "{", "\n", " ", " ", " ", " ", " ",
    " ", " ", " ", " ", " ", " ", " ", "t", "i", "t", "l", "e", "\n", " ",
    " ", " ", " ", " ", " ", " ", " ", " ", " ", "}", "\n", " ", " ", " ",
    " ", " ", " ", " ", " ", "}", "\n", " ", " ", " ", " ", " ", " ", "}",
    "\n", " ", " ", " ", " ", "}" >>

\* path !== '' ? `(${path})` : ''
PathToSearch(path) == IF path # <<>> THEN <<"(">> \o path \o <<")">> ELSE <<>>

getQueryForMergedBumpPullRequestsForYesterday(repository, path, z, today) ==
  LET yesterday == IsoDate(getYesterday(z, today))
  IN QueryHead \o repository \o QueryMerged \o yesterday \o <<".", ".">> \o yesterday
       \o QueryTitle \o PathToSearch(path) \o QueryTail

(***************************************************************************)
(* State.                                                                  *)
(***************************************************************************)
VARIABLES
  zone,                    \* the time zone of the process
  variant,                 \* which main() runs: "enrich" or "index"
  content,                 \* text of repositories.txt
  now,                     \* the current instant
  files,                   \* the file system: path -> parsed JSON content
  runs,                    \* number of runs started
  pc,                      \* where main() is
  lines,                   \* parseFile(content)
  cloneIdx,                \* position of cloneRepositories' loop
  clonedRepositoriesPath,  \* repository -> directory of its clone
  nextTmp,                 \* number of temporary directories made so far
  installResult,           \* one task per entry of the Promise.all of main()
  seqIdx,                  \* position of the for-await loop of main()
  cwd,                     \* working directory of the process
  previousDir,             \* previousDir of calculateRepository
  result,                  \* result of calculateRepository
  summary,                 \* createSummary(result)
  mergedBumpPullRequests,  \* count fetched for the current entry
  sumPc,                   \* where saveSummary is
  lastPc,                  \* where saveLastResult is
  buffer,                  \* `content` of saveSummary, read and not yet written
  historyIndex,            \* historyIndex of main()
  lastRunIndex,            \* lastRunIndex of main()
  cloneCount,              \* history variable: clone calls of this run, per URL
  filesAtStart,            \* history variable: the file system when the run started
  failure,                 \* history variable: stage and entry of the failure
  saved,                   \* history variable: summaries this run has written, per entry
  savedLast,               \* history variable: last-run writes of this run, per entry
  query,                   \* the search query of the fetch in flight
  input,                   \* argument of a function applied on its own
  output                   \* what the function returned

vars == << zone, variant, content, now, files, runs, pc, lines, cloneIdx,
           clonedRepositoriesPath, nextTmp, installResult, seqIdx, cwd,
           previousDir, result, summary, mergedBumpPullRequests, sumPc, lastPc,
           buffer, historyIndex, lastRunIndex, cloneCount, filesAtStart,
           failure, saved, savedLast, query, input, output >>

NoFailure == [stage |-> "none", idx |-> 0]

Init ==
  /\ zone \in {Utc, EuropeParis}
  /\ variant \in {"enrich", "index"}
  /\ content \in Contents
  /\ now = ClockStart
  /\ files = <<>>
  /\ runs = 0
  /\ pc = "idle"
  /\ lines = <<>>
  /\ cloneIdx = 1
  /\ clonedRepositoriesPath = <<>>
  /\ nextTmp = 0
  /\ installResult = <<>>
  /\ seqIdx = 1
  /\ cwd = StartDir
  /\ previousDir = StartDir
  /\ result = <<>>
  /\ summary = [drift |-> N(0), pulse |-> N(0)]
  /\ mergedBumpPullRequests = 0
  /\ sumPc = "idle"
  /\ lastPc = "idle"
  /\ buffer = <<>>
  /\ historyIndex = <<>>
  /\ lastRunIndex = <<>>
  /\ cloneCount = <<>>
  /\ filesAtStart = <<>>
  /\ failure = NoFailure
  /\ saved = <<>>
  /\ savedLast = <<>>
  /\ query = <<>>
  /\ input = <<>>
  /\ output = <<>>

(***************************************************************************)
(* main(): start of the process, parsing, cloneRepositories.               *)
(***************************************************************************)
Repositories(ls) == {ls[k].repository : k \in 1..Len(ls)}

\* a new process: main() reads and parses the file, enters cloneRepositories
StartRun ==
  /\ pc \in {"idle", "done", "failed"}
  /\ runs < MaxRuns
  /\ runs' = runs + 1
  /\ lines' = parseFile(content)
  /\ pc' = "clone"
  /\ cloneIdx' = 1
  /\ clonedRepositoriesPath' = <<>>
  /\ cloneCount' = [r \in Repositories(parseFile(content)) |-> 0]
  /\ installResult' = <<>>
  /\ seqIdx' = 1
  /\ cwd' = StartDir
  /\ previousDir' = StartDir
  /\ sumPc' = "idle"
  /\ lastPc' = "idle"
  /\ historyIndex' = <<>>
  /\ lastRunIndex' = <<>>
  /\ filesAtStart' = files
  /\ failure' = NoFailure
  /\ saved' = [k \in 1..Len(parseFile(content)) |-> <<>>]
  /\ savedLast' = [k \in 1..Len(parseFile(content)) |-> 0]
  /\ UNCHANGED << zone, variant, content, now, files, nextTmp, result, summary,
                  mergedBumpPullRequests, buffer, query, input, output >>

\* the names every plain object inherits from Object.prototype: constructor,
\* __proto__, toString, valueOf, hasOwnProperty, isPrototypeOf,
\* propertyIsEnumerable, toLocaleString and the four __define/lookup
\* Getter/Setter__
ObjectPrototypeMembers ==
  {
    <<
    "c", "o", "n", "s", "t", "r", "u", "c", "t", "o", "r" >>,
    <<
    "_", "_", "p", "r", "o", "t", "o", "_", "_" >>,
    <<
    "t", "o", "S", "t", "r", "i", "n", "g" >>,
    <<
    "v", "a", "l", "u", "e", "O", "f" >>,
    <<
    "h", "a", "s", "O", "w", "n", "P", "r", "o", "p", "e", "r", "t", "y" >>,
    <<
    "i", "s", "P", "r", "o", "t", "o", "t", "y", "p", "e", "O", "f" >>,
    <<
    "p", "r", "o", "p", "e", "r", "t", "y", "I", "s", "E", "n", "u", "m",
    "e", "r", "a", "b", "l", "e" >>,
    <<
    "t", "o", "L", "o", "c", "a", "l", "e", "S", "t", "r", "i", "n", "g" >>,
    <<
    "_", "_", "d", "e", "f", "i", "n", "e", "G", "e", "t", "t", "e", "r",
    "_", "_" >>,
    <<
    "_", "_", "d", "e", "f", "i", "n", "e", "S", "e", "t", "t", "e", "r",
    "_", "_" >>,
    <<
    "_", "_", "l", "o", "o", "k", "u", "p", "G", "e", "t", "t", "e", "r",
    "_", "_" >>,
    <<
    "_", "_", "l", "o", "o", "k", "u", "p", "S", "e", "t", "t", "e", "r",
    "_", "_" >> }

\* !clonedRepositoriesPath[repository] is false: the object, made by {},
\* holds a directory under the name or inherits a member of that name
AlreadyCloned(cloned, repository) ==
  repository \in DOMAIN cloned \/ repository \in ObjectPrototypeMembers

\* what main() does when a clone throws: cloneRepositories and main() reject
AfterCloneFailure(idx) == [pc |-> "failed", cloneIdx |-> idx]

\* cloneRepository rejects: cloneRepositories and main() reject with it
CloneFails ==
  /\ pc' = AfterCloneFailure(cloneIdx).pc
  /\ cloneIdx' = AfterCloneFailure(cloneIdx).cloneIdx
  /\ failure' = [stage |-> "clone", idx |-> cloneIdx]

\* one iteration of the loop of cloneRepositories: a repository already
\* cloned is passed over, for another one cloneRepository is called and runs
\* up to its first await, of mkdtemp
CloneNext ==
  /\ pc = "clone"
  /\ cloneIdx <= Len(lines)
  /\ IF AlreadyCloned(clonedRepositoriesPath, lines[cloneIdx].repository)
     THEN /\ cloneIdx' = cloneIdx + 1
          /\ UNCHANGED pc
     ELSE /\ pc' = "mkdtemp"
          /\ UNCHANGED cloneIdx
  /\ UNCHANGED << zone, variant, content, now, files, runs, lines, clonedRepositoriesPath,
                  nextTmp, installResult, seqIdx, cwd, previousDir, result, summary,
                  mergedBumpPullRequests, sumPc, lastPc, buffer, historyIndex,
                  lastRunIndex, cloneCount, filesAtStart, failure, saved, savedLast,
                  query, input, output >>

\* await mkdtemp(...) of cloneRepository settles: with the new directory
\* simpleGit.clone is called, without it no clone is attempted
Mkdtemp ==
  /\ pc = "mkdtemp"
  /\ \E ok \in BOOLEAN :
       IF ok
       THEN /\ nextTmp' = nextTmp + 1
            /\ cloneCount' = [cloneCount EXCEPT ![lines[cloneIdx].repository] = @ + 1]
            /\ pc' = "gitClone"
            /\ UNCHANGED << cloneIdx, failure >>
       ELSE /\ CloneFails
            /\ UNCHANGED << nextTmp, cloneCount >>
  /\ UNCHANGED << zone, variant, content, now, files, runs, lines, clonedRepositoriesPath,
                  installResult, seqIdx, cwd, previousDir, result, summary,
                  mergedBumpPullRequests, sumPc, lastPc, buffer, historyIndex,
                  lastRunIndex, filesAtStart, saved, savedLast, query, input, output >>

\* await simpleGit.clone(...) of cloneRepository settles: tempRepositoryPath,
\* the directory made last, is returned and recorded for the repository
SimpleGitClone ==
  /\ pc = "gitClone"
  /\ \E ok \in BOOLEAN :
       IF ok
       THEN /\ clonedRepositoriesPath' =
                 (lines[cloneIdx].repository :> [tmp |-> nextTmp]) @@ clonedRepositoriesPath
            /\ cloneIdx' = cloneIdx + 1
            /\ pc' = "clone"
            /\ UNCHANGED failure
       ELSE /\ CloneFails
            /\ UNCHANGED clonedRepositoriesPath
  /\ UNCHANGED << zone, variant, content, now, files, runs, lines, nextTmp, installResult,
                  seqIdx, cwd, previousDir, result, summary, mergedBumpPullRequests,
                  sumPc, lastPc, buffer, historyIndex, lastRunIndex, cloneCount,
                  filesAtStart, saved, savedLast, query, input, output >>

\* clonedRepositoriesPath[repository]; a missing key reads as undefined
Undefined == [tmp |-> -1]

\* under an inherited name the read gives the member of Object.prototype: a
\* function or an object, no directory
Lookup(cloned, repository) ==
  IF repository \in DOMAIN cloned THEN cloned[repository]
  ELSE IF repository \in ObjectPrototypeMembers THEN [tmp |-> -2, member |-> repository]
  ELSE Undefined

\* `${repositoryPath}${sep}${path}`
PackagePath(repositoryPath, path) ==
  [f \in DOMAIN repositoryPath \cup {"path"} |->
     IF f = "path" THEN path ELSE repositoryPath[f]]

\* cloneRepositories returns; lines.map starts one task per entry, each
\* running up to its first await (the package manager probe)
CloneReturn ==
  /\ pc = "clone"
  /\ cloneIdx > Len(lines)
  /\ pc' = "install"
  /\ installResult' =
       [k \in 1..Len(lines) |->
          [state |-> "detect",
           repository |-> lines[k].repository,
           path |-> lines[k].path,
           packagePath |-> PackagePath(Lookup(clonedRepositoriesPath, lines[k].repository),
                                       lines[k].path),
           pm |-> "none",
           packageManager |-> "none"]]
  /\ UNCHANGED << zone, variant, content, now, files, runs, lines, cloneIdx,
                  clonedRepositoriesPath, nextTmp, seqIdx, cwd, previousDir, result,
                  summary, mergedBumpPullRequests, sumPc, lastPc, buffer,
                  historyIndex, lastRunIndex, cloneCount, filesAtStart, failure,
                  saved, savedLast, query, input, output >>

(***************************************************************************)
(* main(): one detect+install task per entry, joined by Promise.all.       *)
(***************************************************************************)
\* getPreferredPm: the kind handed to the metrics calculator
ForLibYear(pm, version) ==
  IF pm = "yarn"
  THEN (IF SatisfiesClassic(version) THEN "yarn" ELSE "berry")
  ELSE pm

TaskFails(k) ==
  /\ installResult' = [installResult EXCEPT ![k].state = "failed"]
  /\ failure' = IF failure.stage = "none" THEN [stage |-> "install", idx |-> k]
                ELSE failure

\* await preferredPM(packagePath) of getPreferredPm settles for task k: for
\* yarn the version is asked next, any other kind is returned as it is.  In
\* a directory that does not exist (the text of an inherited member, or
\* "undefined", joined with the path) preferredPM finds no package manager
\* and reading .name of its result throws: only the failing branch is left.
\* A directory made by mkdtemp has tmp >= 1.
PreferredPM(k) ==
  /\ pc = "install"
  /\ installResult[k].state = "detect"
  /\ \E ok \in {b \in BOOLEAN : b => installResult[k].packagePath.tmp >= 1} :
       IF ok
       THEN /\ installResult' =
                 [installResult EXCEPT
                    ![k].state = IF NominalPm(installResult[k].path) = "yarn"
                                 THEN "yarnVersion" ELSE "install",
                    ![k].pm = IF NominalPm(installResult[k].path) = "yarn"
                              THEN "none" ELSE NominalPm(installResult[k].path),
                    ![k].packageManager = IF NominalPm(installResult[k].path) = "yarn"
                                          THEN "none"
                                          ELSE NominalPm(installResult[k].path)]
            /\ UNCHANGED failure
       ELSE TaskFails(k)
  /\ UNCHANGED << zone, variant, content, now, files, runs, pc, lines, cloneIdx,
                  clonedRepositoriesPath, nextTmp, seqIdx, cwd, previousDir, result,
                  summary, mergedBumpPullRequests, sumPc, lastPc, buffer,
                  historyIndex, lastRunIndex, cloneCount, filesAtStart, saved, savedLast, query, input, output >>

\* await exec('yarn --version') of getPreferredPm settles for task k:
\* getPreferredPm returns, installDependencies is called with the kind main()
\* hands it (pm in index.mjs, the returned kind in the enrich version)
GetPreferredPm(k) ==
  /\ pc = "install"
  /\ installResult[k].state = "yarnVersion"
  /\ \/ \E version \in YarnVersions :
          /\ installResult' =
               [installResult EXCEPT
                  ![k].state = "install",
                  ![k].pm = IF variant = "index"
                            THEN NominalPm(installResult[k].path)
                            ELSE ForLibYear(NominalPm(installResult[k].path), version),
                  ![k].packageManager =
                     ForLibYear(NominalPm(installResult[k].path), version)]
          /\ UNCHANGED failure
     \/ TaskFails(k)
  /\ UNCHANGED << zone, variant, content, now, files, runs, pc, lines, cloneIdx,
                  clonedRepositoriesPath, nextTmp, seqIdx, cwd, previousDir, result,
                  summary, mergedBumpPullRequests, sumPc, lastPc, buffer,
                  historyIndex, lastRunIndex, cloneCount, filesAtStart, saved, savedLast, query, input, output >>

\* await installDependencies(packagePath, packageManager) of task k
InstallDependencies(k) ==
  /\ pc = "install"
  /\ installResult[k].state = "install"
  /\ \E ok \in BOOLEAN :
       IF ok
       THEN /\ installResult' = [installResult EXCEPT ![k].state = "done"]
            /\ UNCHANGED failure
       ELSE TaskFails(k)
  /\ UNCHANGED << zone, variant, content, now, files, runs, pc, lines, cloneIdx,
                  clonedRepositoriesPath, nextTmp, seqIdx, cwd, previousDir, result,
                  summary, mergedBumpPullRequests, sumPc, lastPc, buffer,
                  historyIndex, lastRunIndex, cloneCount, filesAtStart, saved, savedLast, query, input, output >>

\* a join that resolves as soon as one task is done
PromiseAny(tasks) ==
  IF \E k \in 1..Len(tasks) : tasks[k].state = "failed" THEN "rejected"
  ELSE IF tasks = <<>> \/ \E k \in 1..Len(tasks) : tasks[k].state = "done" THEN "resolved"
  ELSE "pending"

\* a join that waits for every task and ignores the failures
PromiseAllSettled(tasks) ==
  IF \A k \in 1..Len(tasks) : tasks[k].state \in {"done", "failed"} THEN "resolved"
  ELSE "pending"

\* Promise.all over the tasks: rejected by the first failure, resolved when
\* every task is done
PromiseAll(tasks) ==
  IF \E k \in 1..Len(tasks) : tasks[k].state = "failed" THEN "rejected"
  ELSE IF \A k \in 1..Len(tasks) : tasks[k].state = "done" THEN "resolved"
  ELSE "pending"

\* await Promise.all(...) of main() resolves: the for-await loop begins
InstallJoin ==
  /\ pc = "install"
  /\ PromiseAll(installResult) = "resolved"
  /\ pc' = "loop"
  /\ seqIdx' = 1
  /\ UNCHANGED << zone, variant, content, now, files, runs, lines, cloneIdx,
                  clonedRepositoriesPath, nextTmp, installResult, cwd, previousDir,
                  result, summary, mergedBumpPullRequests, sumPc, lastPc, buffer,
                  historyIndex, lastRunIndex, cloneCount, filesAtStart, failure,
                  saved, savedLast, query, input, output >>

\* await Promise.all(...) of main() rejects: main() rejects
InstallReject ==
  /\ pc = "install"
  /\ PromiseAll(installResult) = "rejected"
  /\ pc' = "failed"
  /\ UNCHANGED << zone, variant, content, now, files, runs, lines, cloneIdx,
                  clonedRepositoriesPath, nextTmp, installResult, seqIdx, cwd,
                  previousDir, result, summary, mergedBumpPullRequests, sumPc, lastPc,
                  buffer, historyIndex, lastRunIndex, cloneCount, filesAtStart,
                  failure, saved, savedLast, query, input, output >>

(***************************************************************************)
(* main(): the sequential loop over installResult.                         *)
(***************************************************************************)
\* what a rejected await of the loop body does to main(): it rejects, the
\* loop is left
AfterLoopFailure(k) == [pc |-> "failed", seqIdx |-> k]

LoopFails(stage) ==
  /\ pc' = AfterLoopFailure(seqIdx).pc
  /\ seqIdx' = AfterLoopFailure(seqIdx).seqIdx
  /\ failure' = IF failure.stage = "none" THEN [stage |-> stage, idx |-> seqIdx]
                ELSE failure

\* the key of the entry's files: `${repository}#${path}` made safe by the
\* save functions (enrich), getSafeRepositoryName (index)
SafeNameOf(v, repository, path) ==
  IF v = "enrich" THEN replaceRepositoryWithSafeChar(createLine(repository, path))
  ELSE getSafeRepositoryName(repository, path)

EntryKey(k) == SafeNameOf(variant, installResult[k].repository, installResult[k].path)

\* next iteration: calculateRepository saves the working directory, changes
\* it and awaits libyear; after the last entry the index variant goes on to
\* saveIndex
LoopNext ==
  /\ pc = "loop"
  /\ IF seqIdx <= Len(installResult)
     THEN /\ previousDir' = cwd
          /\ cwd' = installResult[seqIdx].packagePath
          /\ pc' = "calc"
     ELSE /\ pc' = IF variant = "index" THEN "saveHistoryIndex" ELSE "done"
          /\ UNCHANGED << cwd, previousDir >>
  /\ UNCHANGED << zone, variant, content, now, files, runs, lines, cloneIdx,
                  clonedRepositoriesPath, nextTmp, installResult, seqIdx, result,
                  summary, mergedBumpPullRequests, sumPc, lastPc, buffer,
                  historyIndex, lastRunIndex, cloneCount, filesAtStart, failure,
                  saved, savedLast, query, input, output >>

\* the repository main() hands to getMergedBumpPullRequestsForYesterday
QueryRepository(k) == installResult[k].repository

\* the directory calculateRepository leaves the process in when libyear throws
DirAfterThrow(previous, current) == current

\* libyear settles: calculateRepository restores the directory and returns,
\* main() builds the summary and starts the fetch (enrich) or saveResult
\* (index: saveSummary and saveLastResult start together)
CalculateReturn ==
  /\ pc = "calc"
  /\ \/ \E r \in LibyearResults(installResult[seqIdx].path, DaysRunning(now)) :
          /\ cwd' = previousDir
          /\ result' = r
          /\ summary' = createSummary(r, variant, now)
          /\ IF variant = "enrich"
             THEN /\ pc' = "fetch"
                  /\ query' = getQueryForMergedBumpPullRequestsForYesterday(
                                 QueryRepository(seqIdx), installResult[seqIdx].path,
                                 zone, now)
                  /\ UNCHANGED << sumPc, lastPc >>
             ELSE /\ pc' = "save"
                  /\ sumPc' = "access"
                  /\ lastPc' = "write"
                  /\ UNCHANGED query
          /\ UNCHANGED << seqIdx, failure >>
     \/ /\ LoopFails("calc")
        /\ cwd' = DirAfterThrow(previousDir, cwd)
        /\ UNCHANGED << result, summary, sumPc, lastPc, query >>
  /\ UNCHANGED << zone, variant, content, now, files, runs, lines, cloneIdx,
                  clonedRepositoriesPath, nextTmp, installResult, previousDir,
                  mergedBumpPullRequests, buffer, historyIndex, lastRunIndex,
                  cloneCount, filesAtStart, saved, savedLast, input, output >>

\* getMergedBumpPullRequestsForYesterday settles; saveResult starts saveSummary
FetchReturn ==
  /\ pc = "fetch"
  /\ \/ \E n \in BumpCounts :
          /\ mergedBumpPullRequests' = n
          /\ pc' = "save"
          /\ sumPc' = "access"
          /\ lastPc' = "idle"
          /\ UNCHANGED << seqIdx, failure >>
     \/ /\ LoopFails("fetch")
        /\ UNCHANGED << mergedBumpPullRequests, sumPc, lastPc >>
  /\ UNCHANGED << zone, variant, content, now, files, runs, lines, cloneIdx,
                  clonedRepositoriesPath, nextTmp, installResult, cwd, previousDir,
                  result, summary, buffer, historyIndex, lastRunIndex, cloneCount,
                  filesAtStart, saved, savedLast, query, input, output >>

(***************************************************************************)
(* saveResult: saveSummary, saveLastResult, saveIndex.                     *)
(***************************************************************************)
\* writeFile(filePath, JSON.stringify(data)) that resolves
WriteFile(fs, path, data) == (path :> data) @@ fs

\* what a writeFile that rejects after it opened the file leaves behind: the
\* file created or emptied, or holding the first bytes of the text; neither
\* is a JSON text
Torn == << [torn |-> TRUE] >>

\* JSON.parse(text) returns
IsJson(data) == data # Torn

\* the outcomes of a writeFile that rejects: the open failed and the file is
\* as it was, or the file was opened (created, truncated) and the write failed
FailedWrite(fs, path) == {fs, (path :> Torn) @@ fs}

HistoryPath(k) == FilePath(cwd, HistoryFileName(EntryKey(k)))
LastRunPath(k) == FilePath(cwd, LastRunFileName(EntryKey(k)))

\* the save functions run while main() awaits saveResult; in the index
\* variant the two run together, and the one still in flight when the other
\* fails may complete
Saving ==
  \/ pc = "save"
  \/ pc = "failed" /\ failure.stage = "save" /\ variant = "index"

\* await access(filePath, constants.F_OK)
SaveSummaryAccess ==
  /\ Saving
  /\ sumPc = "access"
  /\ sumPc' = IF HistoryPath(seqIdx) \in DOMAIN files THEN "read" ELSE "init"
  /\ UNCHANGED << zone, variant, content, now, files, runs, pc, lines, cloneIdx,
                  clonedRepositoriesPath, nextTmp, installResult, seqIdx, cwd,
                  previousDir, result, summary, mergedBumpPullRequests, lastPc,
                  buffer, historyIndex, lastRunIndex, cloneCount, filesAtStart,
                  failure, saved, savedLast, query, input, output >>

SaveSummaryFails ==
  /\ sumPc' = "failed"
  /\ LoopFails("save")

\* catch (e) { await writeFile(filePath, JSON.stringify([])) }
SaveSummaryInit ==
  /\ Saving
  /\ sumPc = "init"
  /\ \/ /\ files' = WriteFile(files, HistoryPath(seqIdx), <<>>)
        /\ sumPc' = "read"
        /\ UNCHANGED << pc, seqIdx, failure >>
     \/ /\ SaveSummaryFails
        /\ files' \in FailedWrite(files, HistoryPath(seqIdx))
  /\ UNCHANGED << zone, variant, content, now, runs, lines, cloneIdx,
                  clonedRepositoriesPath, nextTmp, installResult, cwd, previousDir,
                  result, summary, mergedBumpPullRequests, lastPc, buffer,
                  historyIndex, lastRunIndex, cloneCount, filesAtStart, saved, savedLast, query, input, output >>

\* the content saveSummary builds from the file it read
NewHistory(v, old, z, today, n, s) ==
  IF v = "enrich"
  THEN (IF AttachBumps(old, z, today, n) = Rejected THEN Rejected
        ELSE PushSummary(AttachBumps(old, z, today, n), s))
  ELSE PushSummary(old, s)

\* JSON.parse(await readFile(filePath)), the yesterday lookup and the push
SaveSummaryRead ==
  /\ Saving
  /\ sumPc = "read"
  /\ \/ /\ HistoryPath(seqIdx) \in DOMAIN files
        /\ IsJson(files[HistoryPath(seqIdx)])
        /\ NewHistory(variant, files[HistoryPath(seqIdx)], zone, now,
                      mergedBumpPullRequests, summary) # Rejected
        /\ buffer' = NewHistory(variant, files[HistoryPath(seqIdx)], zone, now,
                                mergedBumpPullRequests, summary)
        /\ sumPc' = "write"
        /\ UNCHANGED << pc, seqIdx, failure >>
     \/ /\ SaveSummaryFails
        /\ UNCHANGED buffer
  /\ UNCHANGED << zone, variant, content, now, files, runs, lines, cloneIdx,
                  clonedRepositoriesPath, nextTmp, installResult, cwd, previousDir,
                  result, summary, mergedBumpPullRequests, lastPc, historyIndex,
                  lastRunIndex, cloneCount, filesAtStart, saved, savedLast, query, input, output >>

\* await writeFile(filePath, JSON.stringify(content)); in the enrich variant
\* saveResult then starts saveLastResult
SaveSummaryWrite ==
  /\ Saving
  /\ sumPc = "write"
  /\ \/ /\ files' = WriteFile(files, HistoryPath(seqIdx), buffer)
        /\ saved' = [saved EXCEPT ![seqIdx] = Append(@, summary)]
        /\ sumPc' = "done"
        /\ lastPc' = IF variant = "enrich" THEN "write" ELSE lastPc
        /\ UNCHANGED << pc, seqIdx, failure >>
     \/ /\ SaveSummaryFails
        /\ files' \in FailedWrite(files, HistoryPath(seqIdx))
        /\ UNCHANGED << saved, lastPc >>
  /\ UNCHANGED << zone, variant, content, now, runs, lines, cloneIdx,
                  clonedRepositoriesPath, nextTmp, installResult, cwd, previousDir,
                  result, summary, mergedBumpPullRequests, buffer, historyIndex,
                  lastRunIndex, cloneCount, filesAtStart, savedLast, query, input, output >>

\* saveLastResult: await writeFile(filePath, JSON.stringify(result))
SaveLastResult ==
  /\ Saving
  /\ lastPc = "write"
  /\ \/ /\ files' = WriteFile(files, LastRunPath(seqIdx), result)
        /\ savedLast' = [savedLast EXCEPT ![seqIdx] = @ + 1]
        /\ lastPc' = "done"
        /\ UNCHANGED << pc, seqIdx, failure >>
     \/ /\ lastPc' = "failed"
        /\ LoopFails("save")
        /\ files' \in FailedWrite(files, LastRunPath(seqIdx))
        /\ UNCHANGED savedLast
  /\ UNCHANGED << zone, variant, content, now, runs, lines, cloneIdx,
                  clonedRepositoriesPath, nextTmp, installResult, cwd, previousDir,
                  result, summary, mergedBumpPullRequests, sumPc, buffer,
                  historyIndex, lastRunIndex, cloneCount, filesAtStart, saved, query, input, output >>

\* historyIndex.push / lastRunIndex.push
IndexRecord(safeRepositoryName, fileName) ==
  [repository |-> safeRepositoryName, fileName |-> fileName]

\* await saveResult(...) resolves; the index variant records the file names
SaveReturn ==
  /\ pc = "save"
  /\ sumPc = "done"
  /\ lastPc = "done"
  /\ IF variant = "index"
     THEN /\ historyIndex' =
               Append(historyIndex,
                      IndexRecord(EntryKey(seqIdx), HistoryFileName(EntryKey(seqIdx))))
          /\ lastRunIndex' =
               Append(lastRunIndex,
                      IndexRecord(EntryKey(seqIdx), LastRunFileName(EntryKey(seqIdx))))
     ELSE UNCHANGED << historyIndex, lastRunIndex >>
  /\ seqIdx' = seqIdx + 1
  /\ pc' = "loop"
  /\ sumPc' = "idle"
  /\ lastPc' = "idle"
  /\ UNCHANGED << zone, variant, content, now, files, runs, lines, cloneIdx,
                  clonedRepositoriesPath, nextTmp, installResult, cwd, previousDir,
                  result, summary, mergedBumpPullRequests, buffer, cloneCount,
                  filesAtStart, failure, saved, savedLast, query, input, output >>

\* saveIndex: writeFile(`data/${name}-index.json`, JSON.stringify(index))
SaveIndexFile(fs, dir, name, index) ==
  WriteFile(fs, FilePath(dir, IndexFileName(name)), index)

\* await saveIndex('history', historyIndex)
SaveHistoryIndex ==
  /\ pc = "saveHistoryIndex"
  /\ \/ /\ files' = SaveIndexFile(files, cwd, HistoryName, historyIndex)
        /\ pc' = "saveLastRunIndex"
        /\ UNCHANGED failure
     \/ /\ pc' = "failed"
        /\ failure' = [stage |-> "index", idx |-> 0]
        /\ files' \in FailedWrite(files, FilePath(cwd, IndexFileName(HistoryName)))
  /\ UNCHANGED << zone, variant, content, now, runs, lines, cloneIdx,
                  clonedRepositoriesPath, nextTmp, installResult, seqIdx, cwd,
                  previousDir, result, summary, mergedBumpPullRequests, sumPc, lastPc,
                  buffer, historyIndex, lastRunIndex, cloneCount, filesAtStart,
                  saved, savedLast, query, input, output >>

\* await saveIndex('last-run', lastRunIndex); main() returns
SaveLastRunIndex ==
  /\ pc = "saveLastRunIndex"
  /\ \/ /\ files' = SaveIndexFile(files, cwd, LastRunName, lastRunIndex)
        /\ pc' = "done"
        /\ UNCHANGED failure
     \/ /\ pc' = "failed"
        /\ failure' = [stage |-> "index", idx |-> 0]
        /\ files' \in FailedWrite(files, FilePath(cwd, IndexFileName(LastRunName)))
  /\ UNCHANGED << zone, variant, content, now, runs, lines, cloneIdx,
                  clonedRepositoriesPath, nextTmp, installResult, seqIdx, cwd,
                  previousDir, result, summary, mergedBumpPullRequests, sumPc, lastPc,
                  buffer, historyIndex, lastRunIndex, cloneCount, filesAtStart,
                  saved, savedLast, query, input, output >>

\* a day passes
Tick ==
  /\ DaysRunning(now) < MaxDay
  /\ now' = now + MinutesPerDay
  /\ UNCHANGED << zone, variant, content, files, runs, pc, lines, cloneIdx,
                  clonedRepositoriesPath, nextTmp, installResult, seqIdx, cwd,
                  previousDir, result, summary, mergedBumpPullRequests, sumPc, lastPc,
                  buffer, historyIndex, lastRunIndex, cloneCount, filesAtStart,
                  failure, saved, savedLast, query, input, output >>

Next ==
  \/ StartRun
  \/ CloneNext
  \/ Mkdtemp
  \/ SimpleGitClone
  \/ CloneReturn
  \/ \E k \in 1..Len(installResult) : PreferredPM(k)
  \/ \E k \in 1..Len(installResult) : GetPreferredPm(k)
  \/ \E k \in 1..Len(installResult) : InstallDependencies(k)
  \/ InstallJoin
  \/ InstallReject
  \/ LoopNext
  \/ CalculateReturn
  \/ FetchReturn
  \/ SaveSummaryAccess
  \/ SaveSummaryInit
  \/ SaveSummaryRead
  \/ SaveSummaryWrite
  \/ SaveLastResult
  \/ SaveReturn
  \/ SaveHistoryIndex
  \/ SaveLastRunIndex
  \/ Tick

Spec == Init /\ [][Next]_vars

(***************************************************************************)
(* Properties.                                                             *)
(***************************************************************************)
IsHistoryFile(p) ==
  /\ StartsWith(p.name, DataDir \o HistoryPrefix)
  /\ p.name # DataDir \o IndexFileName(HistoryName)

\* the fields of a base Summary
Base(s) == [f \in DOMAIN s \cap {"drift", "pulse", "date"} |-> s[f]]
BaseSeq(h) == [j \in 1..Len(h) |-> Base(h[j])]

EntrySafeName(k) == SafeNameOf(variant, lines[k].repository, lines[k].path)
EntryHistoryPath(k) == FilePath(StartDir, HistoryFileName(EntrySafeName(k)))
EntryLastRunPath(k) == FilePath(StartDir, LastRunFileName(EntrySafeName(k)))

OldHistory(p) == IF p \in DOMAIN filesAtStart THEN filesAtStart[p] ELSE <<>>

\* the summaries this run has written to the history p, in the order written
RECURSIVE SavedFrom(_, _)
SavedFrom(p, k) ==
  IF k > Len(saved) THEN <<>>
  ELSE (IF EntryHistoryPath(k) = p THEN saved[k] ELSE <<>>) \o SavedFrom(p, k + 1)

SavedTo(p) == SavedFrom(p, 1)

HistoryFiles == {p \in DOMAIN files \cup DOMAIN filesAtStart : IsHistoryFile(p)}

\* every history is what it was when the run started followed by one summary
\* for each entry of it the run has processed
C1_State ==
  /\ \A p \in HistoryFiles :
       /\ p \in DOMAIN files
       /\ BaseSeq(files[p]) = BaseSeq(OldHistory(p)) \o BaseSeq(SavedTo(p))
  /\ \A k \in 1..Len(saved) :
       /\ Len(saved[k]) <= 1
       /\ k < seqIdx => Len(saved[k]) = 1

\* a step keeps every history file and the summaries in it where they are,
\* adds at most one summary at the end, and creates a history empty
C1_Step ==
  /\ \A p \in DOMAIN files :
       IsHistoryFile(p) =>
         /\ p \in DOMAIN files'
         /\ Len(files'[p]) \in {Len(files[p]), Len(files[p]) + 1}
         /\ \A j \in 1..Len(files[p]) : Base(files'[p][j]) = Base(files[p][j])
  /\ \A p \in DOMAIN files' \ DOMAIN files : IsHistoryFile(p) => files'[p] = <<>>

\* C1: over any sequence of runs a history only grows: a run appends exactly
\* one Summary at the end for each entry it processes and keeps every earlier
\* Summary at its position with drift, pulse and date unchanged; a history
\* that does not exist is created empty and then holds the new Summary.
C1_HistoryOnlyGrows == [](C1_State) /\ [][C1_Step]_vars

\* cloneRepositories has returned to main()
CloneReturned ==
  /\ pc \notin {"idle", "clone", "mkdtemp", "gitClone"}
  /\ failure.stage # "clone"

\* C2: cloneRepositories clones each distinct repositoryURL exactly once,
\* however many entries name it, and the entries that share a repositoryURL
\* get the same workspace directory.
C2_OneClonePerUrl ==
  /\ \A r \in DOMAIN cloneCount : cloneCount[r] <= 1
  /\ CloneReturned =>
       /\ \A r \in Repositories(lines) :
            cloneCount[r] = 1 /\ r \in DOMAIN clonedRepositoriesPath
       /\ \A j, k \in 1..Len(installResult) :
            /\ installResult[k].packagePath.tmp =
                 clonedRepositoriesPath[lines[k].repository].tmp
            /\ lines[j].repository = lines[k].repository =>
                 installResult[j].packagePath.tmp = installResult[k].packagePath.tmp

\* C3: after calculateRepository returns or throws, the working directory is
\* the one in effect before the call.
C3_CwdRestored == pc # "calc" => cwd = previousDir

\* the clones cloneRepositories makes of a URL it has gone past: one, none
\* for a URL that is the name of a member of Object.prototype
ClonesOf(r) == IF r \in ObjectPrototypeMembers THEN 0 ELSE 1

\* C4: when the clone of one URL fails, the clones of the other distinct
\* URLs of the configuration are still performed, and the run does not
\* succeed.  (URLs that name a member of Object.prototype, which are never
\* cloned, are left aside.)
C4_OtherClonesPerformed ==
  failure.stage = "clone" =>
    /\ pc # "done"
    /\ \A r \in Repositories(lines) \ ObjectPrototypeMembers :
         r # lines[failure.idx].repository => cloneCount[r] = 1

\* C5: when the fetch of the merged bump pull requests fails for an entry,
\* the entry's base Summary is still appended to its history and its
\* last-run file is still written in that run.
C5_FetchFailureKeepsSummary ==
  (pc = "failed" /\ failure.stage = "fetch") =>
    /\ Len(saved[failure.idx]) = 1
    /\ savedLast[failure.idx] = 1
    /\ EntryHistoryPath(failure.idx) \in DOMAIN files
    /\ EntryLastRunPath(failure.idx) \in DOMAIN files

ClonesCompleted ==
  /\ cloneIdx > Len(lines)
  /\ failure.stage # "clone"
  /\ \A r \in Repositories(lines) :
       /\ cloneCount[r] = ClonesOf(r)
       /\ ClonesOf(r) = 1 => r \in DOMAIN clonedRepositoriesPath

TasksStarted == installResult # <<>>

MetricStarted ==
  \/ pc \in {"calc", "fetch", "save"}
  \/ seqIdx > 1
  \/ cwd # StartDir
  \/ failure.stage \in {"calc", "fetch", "save", "index"}
  \/ \E k \in 1..Len(saved) : saved[k] # <<>> \/ savedLast[k] # 0

\* C6: no detect/install task starts before every clone has completed, no
\* metric computation starts before every detect/install task has completed,
\* and computation, enrichment and persistence run for one entry at a time in
\* configuration order: everything for entry i is finished before anything
\* for entry i+1 starts, and only the entry being computed has the working
\* directory.
C6_StagesOrdered ==
  /\ TasksStarted => ClonesCompleted
  /\ MetricStarted => \A k \in 1..Len(installResult) : installResult[k].state = "done"
  /\ \A k \in 1..Len(saved) :
       /\ k < seqIdx => Len(saved[k]) = 1 /\ savedLast[k] = 1
       /\ k > seqIdx => saved[k] = <<>> /\ savedLast[k] = 0
       /\ (k = seqIdx /\ pc \in {"clone", "mkdtemp", "gitClone", "install", "loop",
                               "calc", "fetch"}) =>
            saved[k] = <<>> /\ savedLast[k] = 0
  /\ cwd # StartDir =>
       /\ pc = "calc" \/ failure.stage = "calc"
       /\ seqIdx <= Len(installResult)
       /\ cwd = installResult[seqIdx].packagePath

\* the second entry is being computed after the first was persisted
C6_Witness ==
  /\ pc = "calc"
  /\ seqIdx = 2
  /\ Len(saved[1]) = 1
  /\ savedLast[1] = 1

DayOf(s) == IF "date" \in DOMAIN s THEN IsoDay(s) ELSE <<>>
CountDay(h, d) == Cardinality({j \in 1..Len(h) : DayOf(h[j]) = d})

\* C7 as claimed: a history holds at most one Summary per calendar day.
C7_OneSummaryPerDay ==
  \A p \in DOMAIN files :
    IsHistoryFile(p) =>
      \A i, j \in 1..Len(files[p]) :
        (i < j /\ "date" \in DOMAIN files[p][i] /\ "date" \in DOMAIN files[p][j]) =>
          IsoDay(files[p][i]) # IsoDay(files[p][j])

\* C7 amended: history writes are not deduplicated per day: every saveSummary
\* that completes appends its Summary, whatever days the history already
\* holds, so the history then holds one more Summary of that day than before.
C7_EverySaveAppends ==
  [][ (runs' = runs /\ saved' # saved) =>
        LET p == HistoryPath(seqIdx)
        IN /\ p \in DOMAIN files
           /\ Len(files'[p]) = Len(files[p]) + 1
           /\ Base(files'[p][Len(files'[p])]) = Base(summary)
           /\ CountDay(files'[p], DayOf(summary)) = CountDay(files[p], DayOf(summary)) + 1
    ]_vars

\* a history holds two Summaries of the same day
C7_Witness ==
  \E p \in DOMAIN files :
    /\ IsHistoryFile(p)
    /\ \E i, j \in 1..Len(files[p]) :
         /\ i < j
         /\ "date" \in DOMAIN files[p][i]
         /\ "date" \in DOMAIN files[p][j]
         /\ IsoDay(files[p][i]) = IsoDay(files[p][j])

\* C8: when a detect/install task fails, the run writes no history, last-run
\* or index file: every persisted file is as it was before the run.
C8_InstallFailureWritesNothing ==
  (\E k \in 1..Len(installResult) : installResult[k].state = "failed") =>
    files = filesAtStart

\* a run over persisted files has failed in a task while another task was done
C8_Witness ==
  /\ pc = "failed"
  /\ failure.stage = "install"
  /\ filesAtStart # <<>>
  /\ \E k \in 1..Len(installResult) : installResult[k].state = "done"

FileUnchanged(p) ==
  /\ (p \in DOMAIN files) = (p \in DOMAIN filesAtStart)
  /\ p \in DOMAIN files => files[p] = filesAtStart[p]

\* C9: when computation, enrichment or persistence fails for the entry at
\* position k, the run halts: no entry after k is processed and the files of
\* those entries stay as they were (unless an entry up to k shares them),
\* and every entry before k keeps the Summary this run appended.
C9_FirstFailureHalts ==
  failure.stage \in {"calc", "fetch", "save"} =>
    /\ pc = "failed"
    /\ seqIdx = failure.idx
    /\ \A j \in (failure.idx + 1)..Len(lines) :
         /\ saved[j] = <<>>
         /\ savedLast[j] = 0
         /\ (\A i \in 1..failure.idx : EntrySafeName(i) # EntrySafeName(j)) =>
              FileUnchanged(EntryHistoryPath(j)) /\ FileUnchanged(EntryLastRunPath(j))
    /\ \A j \in 1..(failure.idx - 1) :
         /\ Len(saved[j]) = 1
         /\ EntryHistoryPath(j) \in DOMAIN files
         /\ \E m \in (Len(OldHistory(EntryHistoryPath(j))) + 1)..Len(files[EntryHistoryPath(j)]) :
              Base(files[EntryHistoryPath(j)][m]) = Base(saved[j][1])

HistoryIndexPath == FilePath(StartDir, IndexFileName(HistoryName))
LastRunIndexPath == FilePath(StartDir, IndexFileName(LastRunName))

\* the SafeNames of the entries of the configuration
TrackedSafeNames == {EntrySafeName(k) : k \in 1..Len(lines)}

\* the index holds one record per tracked SafeName, pairing it with the name
\* of a file that exists
OneRecordPerSafeName(index, FileNameOf(_)) ==
  /\ {index[i].repository : i \in 1..Len(index)} = TrackedSafeNames
  /\ \A i, j \in 1..Len(index) : index[i].repository = index[j].repository => i = j
  /\ \A i \in 1..Len(index) :
       /\ index[i].fileName = FileNameOf(index[i].repository)
       /\ FilePath(StartDir, index[i].fileName) \in DOMAIN files

\* C10: after a run that processed every entry, the history index and the
\* last-run index each hold one record per tracked SafeName, pairing the
\* SafeName with the name of the file written for it in this run, and
\* nothing of a previous index.
C10_OneRecordPerSafeName ==
  (pc = "done" /\ variant = "index") =>
    /\ HistoryIndexPath \in DOMAIN files
    /\ LastRunIndexPath \in DOMAIN files
    /\ OneRecordPerSafeName(files[HistoryIndexPath], HistoryFileName)
    /\ OneRecordPerSafeName(files[LastRunIndexPath], LastRunFileName)
    /\ \A k \in 1..Len(lines) : Len(saved[k]) = 1 /\ savedLast[k] = 1

(***************************************************************************)
(* The exported functions applied on their own.  The pipeline is at rest;  *)
(* `input` is the argument, `output` the value returned and `pc` the name  *)
(* of the function that returned it.                                       *)
(***************************************************************************)
restVars == << zone, variant, content, now, files, runs, lines, cloneIdx,
               clonedRepositoriesPath, nextTmp, installResult, seqIdx, cwd,
               previousDir, result, summary, mergedBumpPullRequests, sumPc,
               lastPc, buffer, historyIndex, lastRunIndex, cloneCount,
               filesAtStart, failure, saved, savedLast, query, input >>

AtRest ==
  /\ variant = "enrich"
  /\ content = <<>>
  /\ files = <<>>
  /\ runs = 0
  /\ pc = "input"
  /\ lines = <<>>
  /\ cloneIdx = 1
  /\ clonedRepositoriesPath = <<>>
  /\ nextTmp = 0
  /\ installResult = <<>>
  /\ seqIdx = 1
  /\ cwd = StartDir
  /\ previousDir = StartDir
  /\ result = <<>>
  /\ summary = [drift |-> N(0), pulse |-> N(0)]
  /\ mergedBumpPullRequests = 0
  /\ sumPc = "idle"
  /\ lastPc = "idle"
  /\ buffer = <<>>
  /\ historyIndex = <<>>
  /\ lastRunIndex = <<>>
  /\ cloneCount = <<>>
  /\ filesAtStart = <<>>
  /\ failure = NoFailure
  /\ saved = <<>>
  /\ savedLast = <<>>
  /\ query = <<>>
  /\ output = <<>>

Chars(s) == {s[i] : i \in 1..Len(s)}

(***************************************************************************)
(* parseFile and parseRepositoryLine on every text of up to MaxText        *)
(* characters over TextAlphabet.                                           *)
(***************************************************************************)
MaxText == 5
TextAlphabet == {"a", "#", " ", "\r", NL}
Texts == SeqsUpTo(TextAlphabet, MaxText)

InitParse ==
  /\ AtRest
  /\ zone = Utc
  /\ now = ClockStart
  /\ input \in Texts

ApplyParseFile ==
  /\ pc = "input"
  /\ output' = parseFile(input)
  /\ pc' = "parseFile"
  /\ UNCHANGED restVars

\* one line of the configuration text
ApplyParseRepositoryLine ==
  /\ pc = "input"
  /\ NL \notin Chars(input)
  /\ output' = parseRepositoryLine(input)
  /\ pc' = "parseRepositoryLine"
  /\ UNCHANGED restVars

NextParse == ApplyParseFile \/ ApplyParseRepositoryLine

SpecParse == InitParse /\ [][NextParse]_vars

(***************************************************************************)
(* C11.  The lines of a text, counted from its newline characters.         *)
(***************************************************************************)
NewlinePositions(t) == {i \in 1..Len(t) : t[i] = NL}
NthOf(S, n) == CHOOSE x \in S : Cardinality({y \in S : y <= x}) = n
LineCount(t) == Cardinality(NewlinePositions(t)) + 1
LineAt(t, k) ==
  LET first == IF k = 1 THEN 1 ELSE NthOf(NewlinePositions(t), k - 1) + 1
      last == IF k = LineCount(t) THEN Len(t) ELSE NthOf(NewlinePositions(t), k) - 1
  IN SubSeq(t, first, last)

\* the first character of the line that is not white space exists and is not '#'
IsEntryLine(line) ==
  \E i \in 1..Len(line) :
    /\ line[i] \notin Whitespace
    /\ line[i] # "#"
    /\ \A m \in 1..(i - 1) : line[m] \in Whitespace

EntryLines(t) == {k \in 1..LineCount(t) : IsEntryLine(LineAt(t, k))}

\* C11: parseFile returns, in input order and with duplicates, the
\* RepositoryEntry of each line that after trimming is neither empty nor
\* starts with '#', and nothing else.
C11_ParseFileKeepsEntryLines ==
  pc = "parseFile" =>
    /\ Len(output) = Cardinality(EntryLines(input))
    /\ \A j \in 1..Len(output) :
         output[j] = parseRepositoryLine(LineAt(input, NthOf(EntryLines(input), j)))

\* a text with a comment line and twice the same entry line
C11_Witness ==
  /\ pc = "parseFile"
  /\ Len(output) = 2
  /\ output[1] = output[2]
  /\ \E k \in 1..LineCount(input) : StartsWith(Trim(LineAt(input, k)), <<"#">>)

(***************************************************************************)
(* C12.                                                                    *)
(***************************************************************************)
HashPositions(line) == {i \in 1..Len(line) : line[i] = "#"}
FirstHash(line) == CHOOSE i \in HashPositions(line) : \A m \in HashPositions(line) : i <= m

\* C12: parseRepositoryLine splits the line on its first '#': repository is
\* what is before it and path is all that is after it, further '#' included;
\* the path of a line without '#' is the empty string.
C12_SplitOnFirstHash ==
  pc = "parseRepositoryLine" =>
    IF HashPositions(input) = {}
    THEN output = [repository |-> input, path |-> <<>>]
    ELSE output = [repository |-> SubSeq(input, 1, FirstHash(input) - 1),
                   path |-> SubSeq(input, FirstHash(input) + 1, Len(input))]

(***************************************************************************)
(* The SafeNames of two entries, as each version of main() computes them.  *)
(* URLs are up to MaxUrlTokens tokens of UrlTokens put together.           *)
(***************************************************************************)
MaxUrlTokens == 2
UrlTokens == {HttpScheme, HttpsScheme, <<"a">>, <<"/">>, <<".">>}
Urls == {Join(ts, <<>>) : ts \in SeqsUpTo(UrlTokens, MaxUrlTokens) \ {<<>>}}
SubPaths == {<<>>, <<"a">>, <<"-">>}
Entries == [repository : Urls, path : SubPaths]

InitNames ==
  /\ AtRest
  /\ zone = Utc
  /\ now = ClockStart
  /\ input \in Entries \X Entries

\* index.mjs: getSafeRepositoryName(repository, path)
ApplyGetSafeRepositoryName ==
  /\ pc = "input"
  /\ output' = [k \in 1..2 |-> SafeNameOf("index", input[k].repository, input[k].path)]
  /\ pc' = "safeName"
  /\ UNCHANGED restVars

\* part_001: replaceRepositoryWithSafeChar(`${repository}#${path}`)
ApplySafeCharOfLine ==
  /\ pc = "input"
  /\ output' = [k \in 1..2 |-> SafeNameOf("enrich", input[k].repository, input[k].path)]
  /\ pc' = "safeCharOfLine"
  /\ UNCHANGED restVars

NextNames == ApplyGetSafeRepositoryName \/ ApplySafeCharOfLine

SpecNames == InitNames /\ [][NextNames]_vars

(***************************************************************************)
(* C13.                                                                    *)
(***************************************************************************)
NamesComputed == pc \in {"safeName", "safeCharOfLine"}

\* C13: two distinct (repositoryURL, subPath) pairs get distinct SafeNames.
C13_SafeNamesCollisionFree ==
  NamesComputed /\ input[1] # input[2] => output[1] # output[2]

\* the line an entry is named after
NamedLine(e) ==
  IF pc = "safeName" /\ e.path = <<>> THEN e.repository
  ELSE e.repository \o <<"#">> \o e.path

\* the two strings have the same length and differ only where both hold one
\* of the characters '-', '/', '.', ':' and '#'
SameUpToUnsafe(u, w) ==
  /\ Len(u) = Len(w)
  /\ \A i \in 1..Len(u) : u[i] = w[i] \/ (u[i] \in UnsafeChars /\ w[i] \in UnsafeChars)

\* C13 (amended): two pairs get the same SafeName exactly when their lines,
\* with every http:// and https:// taken out, have the same length and
\* differ only at positions where both hold one of '-', '/', '.', ':', '#';
\* pairs with the same SafeName have the same history and last-run file.
C13_SameNameIffSameUpToUnsafe ==
  NamesComputed =>
    /\ output[1] = output[2]
         <=> SameUpToUnsafe(RemoveSchemes(NamedLine(input[1])),
                            RemoveSchemes(NamedLine(input[2])))
    /\ output[1] = output[2]
         <=> HistoryFileName(output[1]) = HistoryFileName(output[2])
    /\ output[1] = output[2]
         <=> LastRunFileName(output[1]) = LastRunFileName(output[2])

\* two entries of different repositories with one SafeName
C13_Witness ==
  /\ NamesComputed
  /\ input[1].repository # input[2].repository
  /\ RemoveSchemes(input[1].repository) # RemoveSchemes(input[2].repository)
  /\ output[1] = output[2]

(***************************************************************************)
(* replaceRepositoryWithSafeChar on every line of up to MaxLineTokens      *)
(* tokens of LineTokens.                                                   *)
(***************************************************************************)
MaxLineTokens == 3
LineTokens ==
  {HttpScheme, HttpsScheme, <<"a">>, <<"-">>, <<"/">>, <<".">>, <<":">>, <<"#">>}
SafeLines == {Join(ts, <<>>) : ts \in SeqsUpTo(LineTokens, MaxLineTokens)}

InitSafe ==
  /\ AtRest
  /\ zone = Utc
  /\ now = ClockStart
  /\ input \in SafeLines

ApplyReplaceRepositoryWithSafeChar ==
  /\ pc = "input"
  /\ output' = replaceRepositoryWithSafeChar(input)
  /\ pc' = "replaceRepositoryWithSafeChar"
  /\ UNCHANGED restVars

NextSafe == ApplyReplaceRepositoryWithSafeChar

SpecSafe == InitSafe /\ [][NextSafe]_vars

(***************************************************************************)
(* C14.                                                                    *)
(***************************************************************************)
WithoutLeadingScheme(line) ==
  IF StartsWith(line, HttpsScheme) THEN SubSeq(line, Len(HttpsScheme) + 1, Len(line))
  ELSE IF StartsWith(line, HttpScheme) THEN SubSeq(line, Len(HttpScheme) + 1, Len(line))
  ELSE line

\* C14: replaceRepositoryWithSafeChar returns the line without its leading
\* http:// or https:// and with nothing else removed, each '-', '/', '.',
\* ':' and '#' being replaced by one '-'.
C14_LeadingSchemeOnly ==
  pc = "replaceRepositoryWithSafeChar" =>
    /\ Len(output) = Len(WithoutLeadingScheme(input))
    /\ \A i \in 1..Len(output) :
         output[i] = IF WithoutLeadingScheme(input)[i] \in UnsafeChars
                     THEN "-" ELSE WithoutLeadingScheme(input)[i]

(***************************************************************************)
(* replaceRepositoryVariablesWithEnvVariables and cloneRepository on every *)
(* URL of up to MaxUrlLen characters over UrlAlphabet and every mapping of *)
(* up to MaxKeys keys.                                                     *)
(***************************************************************************)
MaxUrlLen == 4
MaxKeys == 2
UrlAlphabet == {"$", "A", "B", "/"}
Letters == {"A", "B"}
KeyPool == {<<"A">>, <<"B">>, <<"A", "B">>}
ValuePool == {<<"x">>, <<"$", "B">>, <<"$", "$">>, <<"$", "'">>, <<"$", Grave>>, <<>>}
Mappings ==
  {m \in SeqsUpTo([key : KeyPool, value : ValuePool], MaxKeys) :
     \A i, j \in 1..Len(m) : m[i].key = m[j].key => i = j}

InitSubst ==
  /\ AtRest
  /\ zone = Utc
  /\ now = ClockStart
  /\ input \in [repository : SeqsUpTo(UrlAlphabet, MaxUrlLen), variables : Mappings]

ApplyReplaceVariables ==
  /\ pc = "input"
  /\ output' = replaceRepositoryVariablesWithEnvVariables(input.repository, input.variables)
  /\ pc' = "replaceVariables"
  /\ UNCHANGED restVars

\* cloneRepository(repository, simpleGit, env) runs up to its first await;
\* await mkdtemp(...) settles: with the new directory simpleGit.clone is
\* called on the substituted URL, without it cloneRepository rejects
CloneRepositoryMkdtemp ==
  /\ pc = "input"
  /\ \E ok \in BOOLEAN :
       IF ok
       THEN /\ nextTmp' = nextTmp + 1
            /\ cloneCount' = (input.repository :> 1) @@ cloneCount
            /\ output' = [cloned |-> replaceRepositoryVariablesWithEnvVariables(
                                       input.repository, input.variables),
                          tempRepositoryPath |-> nextTmp + 1]
            /\ pc' = "gitClone"
            /\ UNCHANGED failure
       ELSE /\ pc' = "rejected"
            /\ failure' = [stage |-> "clone", idx |-> 1]
            /\ UNCHANGED << nextTmp, cloneCount, output >>
  /\ UNCHANGED << zone, variant, content, now, files, runs, lines, cloneIdx,
                  clonedRepositoriesPath, installResult, seqIdx, cwd, previousDir,
                  result, summary, mergedBumpPullRequests, sumPc, lastPc, buffer,
                  historyIndex, lastRunIndex, filesAtStart, saved, savedLast,
                  query, input >>

\* await simpleGit.clone(...) of cloneRepository settles: tempRepositoryPath
\* is returned, or cloneRepository rejects
CloneRepositoryClone ==
  /\ pc = "gitClone"
  /\ \E ok \in BOOLEAN :
       IF ok
       THEN /\ pc' = "cloneRepository"
            /\ UNCHANGED failure
       ELSE /\ pc' = "rejected"
            /\ failure' = [stage |-> "clone", idx |-> 1]
  /\ UNCHANGED << zone, variant, content, now, files, runs, lines, cloneIdx,
                  clonedRepositoriesPath, nextTmp, installResult, seqIdx, cwd,
                  previousDir, result, summary, mergedBumpPullRequests, sumPc,
                  lastPc, buffer, historyIndex, lastRunIndex, cloneCount,
                  filesAtStart, saved, savedLast, query, input, output >>

NextSubst == ApplyReplaceVariables \/ CloneRepositoryMkdtemp \/ CloneRepositoryClone

SpecSubst == InitSubst /\ [][NextSubst]_vars

(***************************************************************************)
(* C15.  The tokens of a URL: a '$' and the letters that follow it.        *)
(***************************************************************************)
KeysOf(variables) == {variables[i].key : i \in 1..Len(variables)}
ValueOf(variables, key) ==
  LET i == CHOOSE i \in 1..Len(variables) : variables[i].key = key
  IN variables[i].value

\* the number of letters that follow position i
RECURSIVE NameLen(_, _)
NameLen(url, i) ==
  IF i < Len(url) /\ url[i + 1] \in Letters THEN 1 + NameLen(url, i + 1) ELSE 0

TokenNames(url) ==
  {SubSeq(url, i + 1, i + NameLen(url, i)) : i \in {p \in 1..Len(url) : url[p] = "$"}}

\* every token whose name is a key replaced by the value of the key, in one
\* pass over the URL, everything else kept
RECURSIVE SubstituteTokens(_, _)
SubstituteTokens(url, variables) ==
  IF url = <<>> THEN <<>>
  ELSE IF Head(url) = "$" /\ SubSeq(url, 2, 1 + NameLen(url, 1)) \in KeysOf(variables)
       THEN ValueOf(variables, SubSeq(url, 2, 1 + NameLen(url, 1)))
              \o SubstituteTokens(SubSeq(url, 2 + NameLen(url, 1), Len(url)), variables)
  ELSE <<Head(url)>> \o SubstituteTokens(Tail(url), variables)

HasDollar(str) == "$" \in Chars(str)

\* C15: with values that hold no '$', the result is the URL with every $KEY
\* token replaced by the value of KEY and every other $NAME token left as it
\* is; a URL none of whose tokens names a key, and so a URL without '$', is
\* returned unchanged; cloneRepository clones that URL.
C15_KeysReplacedOthersLeft ==
  /\ pc = "replaceVariables"
       /\ (\A i \in 1..Len(input.variables) : ~HasDollar(input.variables[i].value))
       => output = SubstituteTokens(input.repository, input.variables)
  /\ pc = "replaceVariables"
       /\ TokenNames(input.repository) \cap KeysOf(input.variables) = {}
       => output = input.repository
  /\ pc \in {"gitClone", "cloneRepository"}
       /\ (\A i \in 1..Len(input.variables) : ~HasDollar(input.variables[i].value))
       => output.cloned = SubstituteTokens(input.repository, input.variables)

(***************************************************************************)
(* C16.                                                                    *)
(***************************************************************************)
Reorderings(variables) ==
  {[i \in 1..Len(variables) |-> variables[f[i]]] :
     f \in {g \in [1..Len(variables) -> 1..Len(variables)] :
              \A i, j \in 1..Len(variables) : g[i] = g[j] => i = j}}

\* no key is the beginning of a token with a longer name, and no value is
\* a replacement pattern ("$$", "$'")
NoPrefixHit ==
  \A n \in TokenNames(input.repository), k \in KeysOf(input.variables) :
    StartsWith(n, k) => n = k
NoDollarDollar ==
  \A i \in 1..Len(input.variables) :
    input.variables[i].value \notin {<<"$", "$">>, <<"$", "'">>, <<"$", Grave>>}

\* C16: a value that holds the $NAME token of another key is inserted as it
\* is and never substituted again, and applying the keys in any order gives
\* the same result.
C16_NoRecursionAnyOrder ==
  pc = "replaceVariables" /\ NoPrefixHit /\ NoDollarDollar =>
    /\ output = SubstituteTokens(input.repository, input.variables)
    /\ \A m \in Reorderings(input.variables) :
         replaceRepositoryVariablesWithEnvVariables(input.repository, m) = output

(***************************************************************************)
(* createSummary on every list of up to MaxDeps dependency records.        *)
(***************************************************************************)
MaxDeps == 3
Two53 == [hi |-> 1, lo |-> 0]
DriftChoices == {<<>>, [drift |-> N(1)], [drift |-> N(2)], [drift |-> Two53]}
PulseChoices == {<<>>, [pulse |-> N(1)], [pulse |-> Two53]}
DepPool == {[name |-> "dep"] @@ d @@ q : d \in DriftChoices, q \in PulseChoices}

InitSummary ==
  /\ AtRest
  /\ zone = Utc
  /\ now \in {ClockStart + d * MinutesPerDay : d \in 0..(MaxDay - 1)}
  /\ input \in SeqsUpTo(DepPool, MaxDeps)

\* createSummary of part_001
ApplyCreateSummary ==
  /\ pc = "input"
  /\ output' = createSummary(input, "enrich", now)
  /\ pc' = "createSummary"
  /\ UNCHANGED restVars

\* createSummary of index.mjs
ApplyCreateSummaryUndated ==
  /\ pc = "input"
  /\ output' = createSummary(input, "index", now)
  /\ pc' = "createSummaryUndated"
  /\ UNCHANGED restVars

NextSummary == ApplyCreateSummary \/ ApplyCreateSummaryUndated

SpecSummary == InitSummary /\ [][NextSummary]_vars

(***************************************************************************)
(* C17.                                                                    *)
(***************************************************************************)
SummaryCreated == pc \in {"createSummary", "createSummaryUndated"}
VersionCreated == IF pc = "createSummary" THEN "enrich" ELSE "index"

\* C17: drift and pulse are the sums of the records' fields, an absent
\* field counting 0; they are the same for every permutation of the list;
\* a record with neither field raises no error; the Summary has a date.
C17_SumsInAnyOrder ==
  pc = "createSummary" =>
    /\ \A m \in Reorderings(input) :
         /\ createSummary(m, "enrich", now).drift = output.drift
         /\ createSummary(m, "enrich", now).pulse = output.pulse
    /\ "date" \in DOMAIN output

\* the whole numbers of the fields of the list, summed exactly
RECURSIVE ExactSum(_, _)
ExactSum(deps, f) ==
  IF deps = <<>> THEN 0
  ELSE (IF f \in DOMAIN deps[Len(deps)] THEN deps[Len(deps)][f].lo ELSE 0)
         + ExactSum(SubSeq(deps, 1, Len(deps) - 1), f)

\* every value of the list is below 2^53
AllBelowTwo53(deps) ==
  \A i \in 1..Len(deps) : \A f \in DOMAIN deps[i] \cap {"drift", "pulse"} : deps[i][f].hi = 0

\* C17 (amended): for whole values whose totals stay below 2^53, drift and
\* pulse are the exact sums of the records' fields, an absent field counting
\* 0 and a record with neither field raising no error, and so are the same
\* for every permutation; the Summary of part_001 carries the date of the
\* call and the Summary of index.mjs has no date.
C17_ExactSumsBelowTwo53 ==
  SummaryCreated =>
    /\ {"drift", "pulse"} \subseteq DOMAIN output
    /\ AllBelowTwo53(input) =>
         /\ output.drift = N(ExactSum(input, "drift"))
         /\ output.pulse = N(ExactSum(input, "pulse"))
         /\ \A m \in Reorderings(input) :
              /\ createSummary(m, VersionCreated, now).drift = output.drift
              /\ createSummary(m, VersionCreated, now).pulse = output.pulse
    /\ pc = "createSummary" => "date" \in DOMAIN output /\ output.date = now
    /\ pc = "createSummaryUndated" => "date" \notin DOMAIN output

\* three records below 2^53, one with both fields and one with neither
C17_Witness ==
  /\ pc = "createSummary"
  /\ Len(input) = 3
  /\ AllBelowTwo53(input)
  /\ \E i \in 1..3 : DOMAIN input[i] \cap {"drift", "pulse"} = {}
  /\ \E i \in 1..3 : {"drift", "pulse"} \subseteq DOMAIN input[i]
  /\ input[1] # input[3]
  /\ output.drift = N(3)

(***************************************************************************)
(* getQueryForMergedBumpPullRequestsForYesterday on every day from         *)
(* 2023-01-30 to MaxQueryDay days later, at three times of the day and in  *)
(* five time zones, for two repository identifiers and an empty and a      *)
(* non-empty path term.                                                    *)
(***************************************************************************)
MaxQueryDay == 400
RepositoryIds ==
  { <<"1", "0", "2", "4", "p", "i", "x", "/", "p", "i", "x">>, <<"a", "/", "b">> }
PathTerms == { <<>>, <<"1", "d">> }

InitQuery ==
  /\ AtRest
  /\ zone \in Zones
  /\ now \in {Instant(d, hm[1], hm[2]) : d \in 0..MaxQueryDay, hm \in { <<0, 30>>, <<12, 0>>, <<23, 30>> }}
  /\ input \in [repository : RepositoryIds, path : PathTerms]

ApplyGetQuery ==
  /\ pc = "input"
  /\ output' = getQueryForMergedBumpPullRequestsForYesterday(input.repository, input.path,
                                                           zone, now)
  /\ pc' = "getQuery"
  /\ UNCHANGED restVars

NextQuery == ApplyGetQuery

SpecQuery == InitQuery /\ [][NextQuery]_vars

(***************************************************************************)
(* C18.  The two dates are read back from the text of the query.           *)
(***************************************************************************)
DigitValue(c) == CHOOSE n \in 0..9 : Digits[n + 1] = c
IsDigit(c) == \E n \in 0..9 : Digits[n + 1] = c

\* the text is YYYY-MM-DD
IsIsoText(t) ==
  /\ Len(t) = 10
  /\ t[5] = "-" /\ t[8] = "-"
  /\ \A i \in {1, 2, 3, 4, 6, 7, 9, 10} : IsDigit(t[i])

ParseIso(t) ==
  [year |-> 1000 * DigitValue(t[1]) + 100 * DigitValue(t[2])
              + 10 * DigitValue(t[3]) + DigitValue(t[4]),
   month |-> 10 * DigitValue(t[6]) + DigitValue(t[7]),
   day |-> 10 * DigitValue(t[9]) + DigitValue(t[10])]

\* the calendar day after c
DayAfter(c) ==
  IF c.day < DaysInMonth(c.year, c.month) THEN [c EXCEPT !.day = c.day + 1]
  ELSE IF c.month < 12 THEN [year |-> c.year, month |-> c.month + 1, day |-> 1]
  ELSE [year |-> c.year + 1, month |-> 1, day |-> 1]

WindowFrom == Len(QueryHead) + Len(input.repository) + Len(QueryMerged)
WindowStart == SubSeq(output, WindowFrom + 1, WindowFrom + 10)
WindowDots == SubSeq(output, WindowFrom + 11, WindowFrom + 12)
WindowEnd == SubSeq(output, WindowFrom + 13, WindowFrom + 22)
AfterWindow == SubSeq(output, WindowFrom + 23, Len(output))

\* the current date, on the calendar of UTC and on the local calendar
UtcDate(t) == CivilFromDays(DayOfTime(t))
LocalDate(z, t) == CivilFromDays(DayOfTime(LocalTime(z, t)))
FirstOfFebruary == [year |-> 2023, month |-> 2, day |-> 1]

\* the query the test expects on 2023-02-01 for 1024pix/pix and the path 1d
ExpectedQuery ==
  <<
    "\n", " ", " ", " ", " ", "q", "u", "e", "r", "y", " ", "{", "\n", " ",
    " ", " ", " ", " ", " ", "s", "e", "a", "r", "c", "h", "(", "f", "i",
    "r", "s", "t", ":", " ", "1", "0", "0", ",", " ", "q", "u", "e", "r",
    "y", ":", " ", "\"", "r", "e", "p", "o", ":", "1", "0", "2", "4", "p",
    "i", "x", "/", "p", "i", "x", " ", "i", "s", ":", "p", "r", " ", "i",
    "s", ":", "m", "e", "r", "g", "e", "d", " ", "m", "e", "r", "g", "e",
    "d", ":", "2", "0", "2", "3", "-", "0", "1", "-", "3", "1", ".", ".",
    "2", "0", "2", "3", "-", "0", "1", "-", "3", "1", " ", "i", "n", ":",
    "t", "i", "t", "l", "e", " ", "[", "B", "U", "M", "P", "]", " ", "(",
    "1", "d", ")", "\"", ",", " ", "t", "y", "p", "e", ":", " ", "I", "S",
    "S", "U", "E", ")", " ", "{", "\n", " ", " ", " ", " ", " ", " ", " ",
    " ", "n", "o", "d", "e", "s", " ", "{", "\n", " ", " ", " ", " ", " ",
    " ", " ", " ", " ", " ", ".", ".", ".", " ", "o", "n", " ", "P", "u",
    "l", "l", "R", "e", "q", "u", "e", "s", "t", " ", "{", "\n", " ", " ",
    " ", " ", " ", " ", " ", " ", " ", " ", " ", " ", "t", "i", "t", "l",
    "e", "\n", " ", " ", " ", " ", " ", " ", " ", " ", " ", " ", "}", "\n",
    " ", " ", " ", " ", " ", " ", " ", " ", "}", "\n", " ", " ", " ", " ",
    " ", " ", "}", "\n", " ", " ", " ", " ", "}" >>

\* C18: the query is the fixed text around the repository identifier, a
\* merged window whose two bounds are the calendar day before the current
\* date (the current date of UTC or the local one), also across the end of
\* a month (2023-01-31 on 2023-02-01), and after "[BUMP] " the path term in
\* parentheses, or nothing at all when the path term is empty.
C18_QueryForYesterday ==
  pc = "getQuery" =>
    /\ SubSeq(output, 1, WindowFrom) = QueryHead \o input.repository \o QueryMerged
    /\ IsIsoText(WindowStart)
    /\ DayAfter(ParseIso(WindowStart)) \in {UtcDate(now), LocalDate(zone, now)}
    /\ WindowDots = <<".", ".">>
    /\ WindowEnd = WindowStart
    /\ AfterWindow = QueryTitle
                       \o (IF input.path = <<>> THEN <<>>
                           ELSE <<"(">> \o input.path \o <<")">>)
                       \o QueryTail
    /\ QueryTitle[Len(QueryTitle)] = " " /\ QueryTail[1] = "\""
    /\ UtcDate(now) = FirstOfFebruary /\ LocalDate(zone, now) = FirstOfFebruary
         => WindowStart = <<"2", "0", "2", "3", "-", "0", "1", "-", "3", "1">>
    /\ UtcDate(now) = FirstOfFebruary /\ LocalDate(zone, now) = FirstOfFebruary
         /\ input.repository \o <<"#">> \o input.path
              = <<"1", "0", "2", "4", "p", "i", "x", "/", "p", "i", "x", "#", "1", "d">>
         => output = ExpectedQuery

(***************************************************************************)
(* C19.  The repository the query of the fetch in flight is scoped by: the *)
(* text between "repo:" and the next space.                                *)
(***************************************************************************)
RECURSIVE UpToSpace(_)
UpToSpace(str) ==
  IF str = <<>> \/ Head(str) = " " THEN <<>> ELSE <<Head(str)>> \o UpToSpace(Tail(str))

QueryScope == UpToSpace(SubSeq(query, Len(QueryHead) + 1, Len(query)))

\* owner/name: two non-empty parts around one '/', no ':' and no '#'
IsOwnerName(str) ==
  /\ Cardinality({i \in 1..Len(str) : str[i] = "/"}) = 1
  /\ str[1] # "/" /\ str[Len(str)] # "/"
  /\ \A i \in 1..Len(str) : str[i] \notin {":", "#"}

\* C19: the repository the pipeline passes to the query builder for an
\* entry is in owner/name form and is not the clone URL of the entry.
C19_QueryScopedByOwnerName ==
  pc = "fetch" =>
    /\ IsOwnerName(QueryScope)
    /\ QueryScope # installResult[seqIdx].repository

(***************************************************************************)
(* C20.                                                                    *)
(***************************************************************************)
\* the day after the date of the Summary is today, on the calendar of UTC
\* or on the local one
DatedYesterday(s, today) ==
  /\ "date" \in DOMAIN s
  /\ DayAfter(UtcDate(s.date)) \in {UtcDate(today), LocalDate(zone, today)}

WithBumps(s, n) ==
  [f \in DOMAIN s \cup {"mergedBumpPullRequests"} |->
     IF f = "mergedBumpPullRequests" THEN n ELSE s[f]]

\* saveSummary of part_001 reads the history and builds the new content
SummaryReadStep == variant = "enrich" /\ sumPc = "read" /\ sumPc' = "write"
\* saveSummary writes the content it built
SummaryWriteStep == variant = "enrich" /\ sumPc = "write" /\ sumPc' = "done"

\* C20: after saveSummary, every existing Summary dated yesterday carries
\* the fetched count, and every other existing Summary is as it was.
C20_EveryYesterdaySummaryCounted ==
  [][ /\ SummaryReadStep =>
           LET old == files[HistoryPath(seqIdx)]
           IN \A j \in 1..Len(old) :
                buffer'[j] = IF DatedYesterday(old[j], now)
                             THEN WithBumps(old[j], mergedBumpPullRequests)
                             ELSE old[j]
      /\ SummaryWriteStep => files'[HistoryPath(seqIdx)] = buffer
    ]_vars

(***************************************************************************)
(* C21.                                                                    *)
(***************************************************************************)
\* the entries without subPath whose history this run has written
SavedBareEntries ==
  {k \in 1..Len(installResult) :
     k \in DOMAIN saved /\ saved[k] # <<>> /\ installResult[k].path = <<>>}

\* C21: the history and last-run files of an entry with an empty subPath
\* are keyed by the SafeName of the bare repository URL, which ends with no
\* dash that the URL does not end with, and the dashboard looks the history
\* up under the same key.
C21_BareUrlKeyIsDashboardKey ==
  \A k \in SavedBareEntries :
    LET bare == replaceRepositoryWithSafeChar(installResult[k].repository)
        shown == DashboardKey(installResult[k].repository, installResult[k].path)
    IN /\ EntryKey(k) = bare
       /\ FilePath(StartDir, HistoryFileName(bare)) \in DOMAIN files
       /\ shown = EntryKey(k)
       /\ FilePath(StartDir, HistoryFileName(shown)) \in DOMAIN files

(***************************************************************************)
(* C22.                                                                    *)
(***************************************************************************)
\* a history, last-run or index file is written, under data/ of the
\* working directory
FileWritten == files' # files
WrittenPaths == {p \in DOMAIN files' : p \notin DOMAIN files \/ files'[p] # files[p]}

\* every write happens in the directory the run started in
WritesInStartDir ==
  FileWritten =>
    /\ cwd = StartDir
    /\ \A p \in WrittenPaths : p.dir = StartDir /\ StartsWith(p.name, DataDir)

\* a save of the current entry is between two of its awaits
SaveInFlight == sumPc \in {"access", "init", "read", "write"} \/ lastPc = "write"

\* while libyear is awaited no clone, install, fetch or save is under way
AloneWhileComputing ==
  pc = "calc" =>
    /\ ~SaveInFlight
    /\ cloneIdx > Len(lines)
    /\ Len(installResult) = Len(lines)

\* C22: every write of a history, last-run or index file happens while the
\* working directory is the one the run started in; the working directory
\* differs from it only while a metric computation is in progress, and no
\* other task of the pipeline runs during that time.
C22_CwdAwayOnlyWhileComputing ==
  /\ [](cwd # StartDir => pc = "calc")
  /\ [](AloneWhileComputing)
  /\ [][WritesInStartDir]_vars

====
